---- MODULE Spec2Model ----
(***************************************************************************)
(* Push-notification service of bizservers: PushService (subscribe,        *)
(* unsubscribe, sendToUser, sendToAllUsers, isUserSubscribed) over the     *)
(* PushSubscription collection, with the admin route that deletes users.   *)
(* Every await of the service is one atomic step of a call; calls of       *)
(* different requests interleave at those steps.                           *)
(***************************************************************************)
EXTENDS Integers, Sequences, FiniteSets, TLC

(* ---------------------------------------------------------------- bounds *)
MaxId == 2                      \* documents the collection may ever create

Procs == {"r1", "r2"}           \* concurrently served requests
GateProcs == {"r1"}             \* the request served where rejections are observed
UserIds == {"u1", "u2"}
Endpoints == {"e1", "e2"}
Keys == {"k1", "k2"}

\* user.role: u1 is the operator account, u2 an ordinary account
Role(u) == IF u = "u1" THEN "admin" ELSE "user"

(* the subscribe requests clients send: one pair registered with two key   *)
(* sets, one user with two endpoints, two users sharing an endpoint        *)
SubscribeInputs ==
    {<<"u1", "e1", "k1">>, <<"u1", "e1", "k2">>, <<"u1", "e2", "k1">>,
     <<"u2", "e1", "k1">>}

(* who calls the routes: the users with their tokens, and a client without *)
(* a valid token                                                           *)
Callers == UserIds \cup {"anon"}

Routes == {"subscribe", "unsubscribe", "status", "send-to-user", "send-to-all"}
SendRoutes == {"send-to-user", "send-to-all"}

(* subscription bodies the validators turn down: an endpoint that is no    *)
(* URL, a key set with an empty p256dh, a key set without auth             *)
InvalidBodies ==
    {<<"not-a-url", "k1">>, <<"e1", "kNoP256dh">>, <<"e1", "kNoAuth">>}

(* delivery outcomes of webpush.sendNotification: 201 resolves, the others *)
(* reject with error.statusCode; 0 is an error without statusCode          *)
(* (timeout, network failure)                                              *)
Statuses == {201, 404, 410, 500, 0}

VARIABLES
    store,          \* PushSubscription collection: set of documents
    nextId,         \* next _id the collection assigns
    users,          \* User collection: ids of the existing users
    pc,             \* per request: position in its service call
    args,           \* per request: arguments of the running call
    subscriptions,  \* per request: the array loaded by find()
    idx,            \* per request: iterations of the send loop completed
    successCount,   \* per request: the local counter of the send loop
    result,         \* per request: value returned / error thrown
    hist,           \* per request: what the call did so far (observation only)
    prev,           \* the unsubscribe that returned or the request that was
                    \* turned down last, while nothing ran since
    vapid           \* whether the process was started with its VAPID keys

vars == <<store, nextId, users, pc, args, subscriptions, idx, successCount,
          result, hist, prev, vapid>>

(* ------------------------------------------------------------- documents *)
NoArgs == [op |-> "none"]
NoResult == [none |-> TRUE]
NoPrev == [op |-> "none"]

\* observation of a call: for subscribe, whether another subscribe of the
\* same pair overlapped it and the keys of the active documents its
\* deleteMany removed; for a dispatch, the ids inactive and the number of
\* targets when it loaded (-1: nothing loaded), the
\* attempts delivered and failed, the tag and target of the last attempt,
\* and whether its pruning delete failed; for unsubscribe, the number of
\* documents the user owned at the call; for every call on a user, the
\* count the directly preceding unsubscribe of that user returned (-1: no
\* such call directly before) and whether the store failed the call
NoHist == [overlap |-> FALSE, replaced |-> {}, inactiveAtLoad |-> {},
           loaded |-> -1, delivered |-> 0, failed |-> 0, last |-> "none",
           lastId |-> 0, pruneFailed |-> FALSE, owned |-> -1,
           prevCount |-> -1, storeFailed |-> FALSE]

\* PushSubscription.create({userId, endpoint, keys}): schema default
\* isActive = true, fresh _id, no uniqueness constraint on (userId, endpoint)
NewDocument(id, u, e, k) ==
    [id |-> id, userId |-> u, endpoint |-> e, keys |-> k, isActive |-> TRUE]

\* the documents the collection may hold when the process starts: nothing,
\* or a document of an earlier run whose isActive flag is false
InitStores ==
    {{}, {[id |-> 1, userId |-> "u1", endpoint |-> "e1", keys |-> "k1",
           isActive |-> FALSE]}}

RECURSIVE SortById(_)
\* find() hands the documents back in insertion (_id) order
SortById(S) ==
    IF S = {} THEN <<>>
    ELSE LET m == CHOOSE r \in S : \A q \in S : r.id <= q.id
         IN <<m>> \o SortById(S \ {m})

\* variant: the delete-existing step matches the endpoint of any user
SubscribeFilterAnyUser(u, e) == {r \in store : r.endpoint = e}

\* variant: the delete-existing step matches stale documents only
SubscribeFilterStaleOnly(u, e) ==
    {r \in store : r.userId = u /\ r.endpoint = e /\ ~r.isActive}

\* filter of subscribe's deleteMany({userId, endpoint})
SubscribeFilter(u, e) == {r \in store : r.userId = u /\ r.endpoint = e}

\* variant: the delete stops after the oldest document of the user
UnsubscribeFilterOldest(u) ==
    LET S == {r \in store : r.userId = u}
    IN IF S = {} THEN {} ELSE {CHOOSE r \in S : \A q \in S : r.id <= q.id}

\* variant: the delete matches the active documents of the user only
UnsubscribeFilterActiveOnly(u) == {r \in store : r.userId = u /\ r.isActive}

\* filter of unsubscribe's deleteMany({userId})
UnsubscribeFilter(u) == {r \in store : r.userId = u}

\* variant: the status count forgets the isActive condition
CountFilterAnyState(u) == {r \in store : r.userId = u}

\* variant: the target query forgets the isActive condition
SendToUserFilterAnyState(u) == {r \in store : r.userId = u}

\* filter of sendToUser's find({userId, isActive: true})
SendToUserFilter(u) == {r \in store : r.userId = u /\ r.isActive}

\* filter of sendToAllUsers' find({isActive: true})
SendToAllFilter == {r \in store : r.isActive}

\* filter of isUserSubscribed's countDocuments({userId, isActive: true})
CountFilter(u) == {r \in store : r.userId = u /\ r.isActive}

\* .populate('userId', 'name email'): the user document, or null when the
\* referenced user no longer exists
Populate(r) == [r EXCEPT !.userId = IF r.userId \in users THEN r.userId ELSE "null"]

\* variant: success reported whenever there was a target
AggregateAnyTarget(n, total) == [success |-> total > 0, sent |-> n, total |-> total]

\* the aggregate returned after the loop
Aggregate(n, total) == [success |-> n > 0, sent |-> n, total |-> total]

\* variant: the early return has the shape of the aggregate
EmptyResultAsAggregate == [success |-> FALSE, sent |-> 0, total |-> 0]

\* the early return on an empty target set
EmptyResult == [success |-> FALSE, message |-> "No subscriptions found"]

\* throw new Error(msg) out of the service method
Thrown(msg) == [error |-> msg]

\* the DeliveryOutcome tag of one attempt, as the provider answered it
Tag(st) ==
    IF st = 201 THEN "Delivered"
    ELSE IF st \in {404, 410} THEN "PermanentFailure"
    ELSE "TransientFailure"

\* variant: every rejected delivery counts as an expired endpoint
IsGoneAnyError(st) == st # 201

\* error.statusCode === 410 || error.statusCode === 404
IsGone(st) == st = 410 \/ st = 404

Init ==
    /\ store \in InitStores
    /\ nextId = Cardinality(store) + 1
    /\ users = UserIds
    /\ pc = [p \in Procs |-> "idle"]
    /\ args = [p \in Procs |-> NoArgs]
    /\ subscriptions = [p \in Procs |-> <<>>]
    /\ idx = [p \in Procs |-> 0]
    /\ successCount = [p \in Procs |-> 0]
    /\ result = [p \in Procs |-> NoResult]
    /\ hist = [p \in Procs |-> NoHist]
    /\ prev = NoPrev
    /\ vapid \in BOOLEAN

\* the locals of request p after a step
Local(p, at, a, subs, i, n, r) ==
    /\ pc' = [pc EXCEPT ![p] = at]
    /\ args' = [args EXCEPT ![p] = a]
    /\ subscriptions' = [subscriptions EXCEPT ![p] = subs]
    /\ idx' = [idx EXCEPT ![p] = i]
    /\ successCount' = [successCount EXCEPT ![p] = n]
    /\ result' = [result EXCEPT ![p] = r]

\* the service method returns r: its locals are gone
Return(p, a, r) == Local(p, "returned", a, <<>>, 0, 0, r)

\* variant: the error is swallowed and the method returns
ThrowSwallowed(p, a, msg) == Local(p, "returned", a, <<>>, 0, 0, [success |-> FALSE])

\* the service method throws: its locals are gone
Throw(p, a, msg) == Local(p, "thrown", a, <<>>, 0, 0, Thrown(msg))

\* no request stands between the return of its service method and its
\* response: that stretch has no await, so no other request runs in it
Quiet == \A q \in Procs : pc[q] \notin {"returned", "thrown"}

\* requiring the service module runs webpush.setVapidDetails, which throws
\* on an undefined key: the routes module fails to load and with it the
\* requires of server.js, so no route is ever mounted
Serving == vapid

\* body('subscription.endpoint').isURL()
IsURL(e) == e \in Endpoints

\* the two key fields of a posted key set
P256dh(k) == IF k = "kNoP256dh" THEN "" ELSE k
Auth(k) == IF k = "kNoAuth" THEN "" ELSE k

\* variant: the key validators accept every value
NotEmptyAnything(v) == TRUE

\* body(...).notEmpty()
NotEmpty(v) == v # ""

\* validationResult(req).isEmpty() for a subscribe body
ValidSubscription(e, k) == IsURL(e) /\ NotEmpty(P256dh(k)) /\ NotEmpty(Auth(k))

\* protect: a token of a user that still exists
Protect(c) == c \in users

\* variant: every authenticated caller passes the role check
RestrictToAnyRole(c) == TRUE

\* restrictTo('admin'): roles.includes(req.user.role)
RestrictTo(c) == Role(c) = "admin"

\* the error status the middleware chain of a route answers with, 0 when
\* the request reaches the service: protect, then for subscribe its
\* validators, for the send routes restrictTo('admin')
MiddlewareStatus(route, c, e, k) ==
    IF ~Protect(c) THEN 401
    ELSE IF route = "subscribe"
         THEN IF ValidSubscription(e, k) THEN 0 ELSE 400
         ELSE IF route \in SendRoutes /\ ~RestrictTo(c) THEN 403 ELSE 0

\* the count returned by an unsubscribe of user u that came directly before
PrevCount(u) ==
    IF prev.op = "unsubscribe" /\ prev.userId = u THEN prev.count ELSE -1

(* -------------------------------------------------------------- subscribe *)
\* request q is between the two awaits of subscribe(u, {endpoint: e})
InFlightSame(q, u, e) ==
    /\ pc[q] = "subscribe_create"
    /\ args[q].userId = u
    /\ args[q].endpoint = e

\* subscribe, first await: deleteMany({userId, endpoint})
SubscribeDeleteMany(p, u, e, k) ==
    LET a == [op |-> "subscribe", userId |-> u, endpoint |-> e, keys |-> k]
    IN /\ Quiet
       /\ Serving
       /\ pc[p] = "idle"
       /\ MiddlewareStatus("subscribe", u, e, k) = 0
       /\ nextId + Cardinality({q \in Procs : pc[q] = "subscribe_create"}) <= MaxId
       /\ \E fail \in BOOLEAN :
            IF fail
            THEN /\ Throw(p, a, "Failed to subscribe")
                 /\ hist' = [hist EXCEPT ![p].storeFailed = TRUE]
                 /\ UNCHANGED store
            ELSE /\ store' = store \ SubscribeFilter(u, e)
                 /\ Local(p, "subscribe_create", a, <<>>, 0, 0, NoResult)
                 /\ hist' = [q \in Procs |->
                               IF q = p
                               THEN [hist[q] EXCEPT
                                       !.overlap = \E o \in Procs \ {p} :
                                                     InFlightSame(o, u, e),
                                       !.replaced = {r.keys : r \in {d \in store :
                                                       /\ d.userId = u
                                                       /\ d.endpoint = e
                                                       /\ d.isActive}}]
                               ELSE IF InFlightSame(q, u, e)
                                    THEN [hist[q] EXCEPT !.overlap = TRUE]
                                    ELSE hist[q]]
       /\ prev' = NoPrev
       /\ UNCHANGED <<nextId, users, vapid>>

\* variant: the second step writes the endpoint and keys into the user's
\* oldest document when there is one, and creates a document otherwise
SubscribeUpsert(p) ==
    /\ Quiet
    /\ pc[p] = "subscribe_create"
    /\ LET own == {r \in store : r.userId = args[p].userId}
           old == CHOOSE r \in own : \A q \in own : r.id <= q.id
           doc == IF own = {}
                  THEN NewDocument(nextId, args[p].userId,
                                   args[p].endpoint, args[p].keys)
                  ELSE [old EXCEPT !.endpoint = args[p].endpoint,
                                   !.keys = args[p].keys]
       IN /\ store' = {r \in store : r.id # doc.id} \cup {doc}
          /\ nextId' = IF own = {} THEN nextId + 1 ELSE nextId
          /\ Return(p, args[p], doc)
          /\ UNCHANGED hist
    /\ prev' = NoPrev
    /\ UNCHANGED <<users, vapid>>

\* subscribe, second await: create({userId, endpoint, keys})
SubscribeCreate(p) ==
    /\ Quiet
    /\ pc[p] = "subscribe_create"
    /\ \E fail \in BOOLEAN :
         IF fail
         THEN /\ Throw(p, args[p], "Failed to subscribe")
              /\ hist' = [hist EXCEPT ![p].storeFailed = TRUE]
              /\ UNCHANGED <<store, nextId>>
         ELSE LET doc == NewDocument(nextId, args[p].userId,
                                     args[p].endpoint, args[p].keys)
              IN /\ store' = store \cup {doc}
                 /\ nextId' = nextId + 1
                 /\ Return(p, args[p], doc)
                 /\ UNCHANGED hist
    /\ prev' = NoPrev
    /\ UNCHANGED <<users, vapid>>

(* ------------------------------------------------------------ unsubscribe *)
\* unsubscribe: deleteMany({userId}), returns result.deletedCount
Unsubscribe(p, u) ==
    LET a == [op |-> "unsubscribe", userId |-> u]
    IN /\ Quiet
       /\ Serving
       /\ pc[p] = "idle"
       /\ MiddlewareStatus("unsubscribe", u, "", "") = 0
       /\ \E fail \in BOOLEAN :
            /\ IF fail
               THEN /\ Throw(p, a, "Failed to unsubscribe")
                    /\ prev' = NoPrev
                    /\ UNCHANGED store
               ELSE /\ store' = store \ UnsubscribeFilter(u)
                    /\ prev' = [op |-> "unsubscribe", userId |-> u,
                                count |-> Cardinality(UnsubscribeFilter(u))]
                    /\ Return(p, a, [deletedCount |->
                                       Cardinality(UnsubscribeFilter(u))])
            /\ hist' = [hist EXCEPT ![p] = [@ EXCEPT
                  !.owned = Cardinality({r \in store : r.userId = u}),
                  !.prevCount = PrevCount(u),
                  !.storeFailed = fail]]
       /\ UNCHANGED <<nextId, users, vapid>>

(* -------------------------------------------------------- isUserSubscribed *)
\* variant: a failing count is thrown on to the route
IsUserSubscribedRethrows(p, u) ==
    LET a == [op |-> "isUserSubscribed", userId |-> u]
    IN /\ Quiet
       /\ Serving
       /\ pc[p] = "idle"
       /\ MiddlewareStatus("status", u, "", "") = 0
       /\ \E fail \in BOOLEAN :
            /\ IF fail
               THEN Throw(p, a, "Failed to check subscription status")
               ELSE Return(p, a, [isSubscribed |-> Cardinality(CountFilter(u)) > 0])
            /\ hist' = [hist EXCEPT ![p] = [@ EXCEPT
                  !.prevCount = PrevCount(u),
                  !.storeFailed = fail]]
       /\ prev' = NoPrev
       /\ UNCHANGED <<store, nextId, users, vapid>>

\* isUserSubscribed: countDocuments({userId, isActive: true}) > 0, false on error
IsUserSubscribed(p, u) ==
    LET a == [op |-> "isUserSubscribed", userId |-> u]
    IN /\ Quiet
       /\ Serving
       /\ pc[p] = "idle"
       /\ MiddlewareStatus("status", u, "", "") = 0
       /\ \E fail \in BOOLEAN :
            /\ Return(p, a, [isSubscribed |-> IF fail THEN FALSE
                                              ELSE Cardinality(CountFilter(u)) > 0])
            /\ hist' = [hist EXCEPT ![p] = [@ EXCEPT
                  !.prevCount = PrevCount(u),
                  !.storeFailed = fail]]
       /\ prev' = NoPrev
       /\ UNCHANGED <<store, nextId, users, vapid>>

(* ------------------------------------------------------------- dispatching *)
\* the subscription of the running loop iteration
Current(p) == subscriptions[p][idx[p] + 1]

\* variant: the loop returns after its first iteration
AdvanceReturnsAtOnce(p, loop, n) ==
    Return(p, args[p], Aggregate(n, Len(subscriptions[p])))

\* variant: successCount is one counter shared by all running calls
AdvanceSharedCounter(p, loop, n) ==
    LET o == CHOOSE q \in Procs : q # p
    IN IF idx[p] + 1 = Len(subscriptions[p])
       THEN Return(p, args[p], Aggregate(n + successCount[o], Len(subscriptions[p])))
       ELSE Local(p, loop, args[p], subscriptions[p], idx[p] + 1, n, NoResult)

\* end of one loop iteration with counter n: the next subscription, or the
\* return after the loop
Advance(p, loop, n) ==
    IF idx[p] + 1 = Len(subscriptions[p])
    THEN Return(p, args[p], Aggregate(n, Len(subscriptions[p])))
    ELSE Local(p, loop, args[p], subscriptions[p], idx[p] + 1, n, NoResult)

\* variant: pruning deletes by endpoint
PruneFilterByEndpoint(d) == {r \in store : r.endpoint = d.endpoint}

\* filter of findByIdAndDelete(subscription._id)
PruneFilter(d) == {r \in store : r.id = d.id}

\* the targets whose attempt was issued and has no outcome yet: the loop
\* awaits webpush.sendNotification inside its body, one call at a time
Pending(p) ==
    IF pc[p] \in {"sendToUser_send", "sendToAll_send"}
    THEN {Current(p).id} ELSE {}

\* what the load of the target set leaves in the call's history
Loaded(p, target, before) ==
    hist' = [hist EXCEPT ![p] = [@ EXCEPT
               !.inactiveAtLoad = {r.id : r \in {q \in store : ~q.isActive}},
               !.loaded = Cardinality(target),
               !.prevCount = before]]

\* what one delivery attempt leaves in the call's history
Attempted(p, st) ==
    hist' = [hist EXCEPT ![p] = [@ EXCEPT
               !.delivered = IF Tag(st) = "Delivered" THEN @ + 1 ELSE @,
               !.failed = IF Tag(st) = "Delivered" THEN @ ELSE @ + 1,
               !.last = Tag(st),
               !.lastId = Current(p).id]]

\* sendToUser, first await: find({userId, isActive: true}); empty -> early return
SendToUserFind(p, c, u) ==
    LET a == [op |-> "sendToUser", userId |-> u, caller |-> c]
    IN /\ Quiet
       /\ Serving
       /\ pc[p] = "idle"
       /\ MiddlewareStatus("send-to-user", c, "", "") = 0
       /\ \E fail \in BOOLEAN :
            IF fail
            THEN /\ Throw(p, a, "Failed to send notification")
                 /\ hist' = [hist EXCEPT ![p].storeFailed = TRUE]
            ELSE /\ Loaded(p, SendToUserFilter(u), PrevCount(u))
                 /\ IF SendToUserFilter(u) = {}
                    THEN Return(p, a, EmptyResult)
                    ELSE Local(p, "sendToUser_send", a,
                               SortById(SendToUserFilter(u)), 0, 0, NoResult)
       /\ prev' = NoPrev
       /\ UNCHANGED <<store, nextId, users, vapid>>

\* sendToUser, loop body up to its await: webpush.sendNotification resolves
\* (successCount++) or rejects (catch: log, then prune when 410/404)
SendToUserSend(p) ==
    /\ Quiet
    /\ pc[p] = "sendToUser_send"
    /\ \E st \in Statuses :
         /\ Attempted(p, st)
         /\ IF st = 201
            THEN Advance(p, "sendToUser_send", successCount[p] + 1)
            ELSE IF IsGone(st)
                 THEN Local(p, "sendToUser_prune", args[p], subscriptions[p],
                            idx[p], successCount[p], NoResult)
                 ELSE Advance(p, "sendToUser_send", successCount[p])
    /\ prev' = NoPrev
    /\ UNCHANGED <<store, nextId, users, vapid>>

\* sendToUser, await in the catch block: findByIdAndDelete(subscription._id)
SendToUserPrune(p) ==
    /\ Quiet
    /\ pc[p] = "sendToUser_prune"
    /\ \E fail \in BOOLEAN :
         IF fail
         THEN /\ Throw(p, args[p], "Failed to send notification")
              /\ hist' = [hist EXCEPT ![p] = [@ EXCEPT !.pruneFailed = TRUE,
                                                       !.storeFailed = TRUE]]
              /\ UNCHANGED store
         ELSE /\ store' = store \ PruneFilter(Current(p))
              /\ Advance(p, "sendToUser_send", successCount[p])
              /\ UNCHANGED hist
    /\ prev' = NoPrev
    /\ UNCHANGED <<nextId, users, vapid>>

\* sendToAllUsers, first await: find({isActive: true}).populate('userId')
SendToAllFind(p, c) ==
    LET a == [op |-> "sendToAllUsers", caller |-> c]
    IN /\ Quiet
       /\ Serving
       /\ pc[p] = "idle"
       /\ MiddlewareStatus("send-to-all", c, "", "") = 0
       /\ \E fail \in BOOLEAN :
            IF fail
            THEN /\ Throw(p, a, "Failed to send bulk notification")
                 /\ hist' = [hist EXCEPT ![p].storeFailed = TRUE]
            ELSE /\ Loaded(p, SendToAllFilter, -1)
                 /\ IF SendToAllFilter = {}
                    THEN Return(p, a, EmptyResult)
                    ELSE Local(p, "sendToAll_send", a,
                               SortById({Populate(r) : r \in SendToAllFilter}),
                               0, 0, NoResult)
       /\ prev' = NoPrev
       /\ UNCHANGED <<store, nextId, users, vapid>>

\* sendToAllUsers, loop body up to its await; the catch block first logs
\* subscription.userId._id, a TypeError when populate left userId null
SendToAllSend(p) ==
    /\ Quiet
    /\ pc[p] = "sendToAll_send"
    /\ \E st \in Statuses :
         /\ Attempted(p, st)
         /\ IF st = 201
            THEN Advance(p, "sendToAll_send", successCount[p] + 1)
            ELSE IF Current(p).userId = "null"
                 THEN Throw(p, args[p], "Failed to send bulk notification")
                 ELSE IF IsGone(st)
                      THEN Local(p, "sendToAll_prune", args[p], subscriptions[p],
                                 idx[p], successCount[p], NoResult)
                      ELSE Advance(p, "sendToAll_send", successCount[p])
    /\ prev' = NoPrev
    /\ UNCHANGED <<store, nextId, users, vapid>>

\* sendToAllUsers, await in the catch block: findByIdAndDelete(subscription._id)
SendToAllPrune(p) ==
    /\ Quiet
    /\ pc[p] = "sendToAll_prune"
    /\ \E fail \in BOOLEAN :
         IF fail
         THEN /\ Throw(p, args[p], "Failed to send bulk notification")
              /\ hist' = [hist EXCEPT ![p] = [@ EXCEPT !.pruneFailed = TRUE,
                                                       !.storeFailed = TRUE]]
              /\ UNCHANGED store
         ELSE /\ store' = store \ PruneFilter(Current(p))
              /\ Advance(p, "sendToAll_send", successCount[p])
              /\ UNCHANGED hist
    /\ prev' = NoPrev
    /\ UNCHANGED <<nextId, users, vapid>>

(* ------------------------------------------------------------ admin routes *)
\* DELETE /users/:id: removes the user document only (never an admin's);
\* the user's push subscriptions stay in their collection
DeleteUser(u) ==
    /\ Quiet
    /\ Serving
    /\ u \in users
    /\ Role(u) # "admin"
    /\ users' = users \ {u}
    /\ prev' = NoPrev
    /\ UNCHANGED <<store, nextId, pc, args, subscriptions, idx, successCount,
                   result, hist, vapid>>

\* a request the middleware chain of its route turns down: the error goes
\* to the client, no service method runs
Reject(route, c, e, k) ==
    /\ Quiet
    /\ Serving
    /\ MiddlewareStatus(route, c, e, k) # 0
    /\ prev' = [op |-> "rejected", route |-> route, caller |-> c,
                endpoint |-> e, keys |-> k,
                status |-> MiddlewareStatus(route, c, e, k), before |-> store]
    /\ UNCHANGED <<store, nextId, users, pc, args, subscriptions, idx,
                   successCount, result, hist, vapid>>

\* the status of the response to a request whose service method finished
ResponseStatus(p) ==
    IF pc[p] = "thrown" THEN 500
    ELSE IF args[p].op = "subscribe" THEN 201 ELSE 200

\* the route hands the value or the error to the client; the request ends
Respond(p) ==
    /\ pc[p] \in {"returned", "thrown"}
    /\ Local(p, "idle", NoArgs, <<>>, 0, 0, NoResult)
    /\ hist' = [hist EXCEPT ![p] = NoHist]
    /\ UNCHANGED <<store, nextId, users, prev, vapid>>

\* the steps of the requests P
Step(P) ==
    \/ \E p \in P, in \in SubscribeInputs :
         SubscribeDeleteMany(p, in[1], in[2], in[3])
    \/ \E p \in P, u \in UserIds, b \in InvalidBodies :
         SubscribeDeleteMany(p, u, b[1], b[2])
    \/ \E p \in P : SubscribeCreate(p)
    \/ \E p \in P, u \in UserIds : Unsubscribe(p, u)
    \/ \E p \in P, u \in UserIds : IsUserSubscribed(p, u)
    \/ \E p \in P, c \in Callers, u \in UserIds : SendToUserFind(p, c, u)
    \/ \E p \in P : SendToUserSend(p)
    \/ \E p \in P : SendToUserPrune(p)
    \/ \E p \in P, c \in Callers : SendToAllFind(p, c)
    \/ \E p \in P : SendToAllSend(p)
    \/ \E p \in P : SendToAllPrune(p)
    \/ \E u \in UserIds : DeleteUser(u)
    \/ \E p \in P : Respond(p)

Next == Step(Procs)

Spec == Init /\ [][Next]_vars

\* the requests the middleware turns down, next to one request at a time
\* that reaches the service
GateNext ==
    \/ Step(GateProcs)
    \/ \E route \in Routes, c \in Callers : Reject(route, c, "e1", "k1")
    \/ \E c \in Callers, b \in InvalidBodies : Reject("subscribe", c, b[1], b[2])

GateSpec == Init /\ [][GateNext]_vars

\* what the runtime guarantees: a store operation awaited by a running
\* call settles and a finished call is answered; neither the arrival of a
\* request nor the answer of a push endpoint is guaranteed, as
\* webpush.sendNotification is called without a timeout
Fairness ==
    /\ \A p \in Procs : WF_vars(SubscribeCreate(p))
    /\ \A p \in Procs : WF_vars(SendToUserPrune(p))
    /\ \A p \in Procs : WF_vars(SendToAllPrune(p))
    /\ \A p \in Procs : WF_vars(Respond(p))

FairSpec == Spec /\ Fairness

(* ================================================================ claims *)
IsDispatch(p) == args[p].op \in {"sendToUser", "sendToAllUsers"}
Finished(p) == pc[p] \in {"returned", "thrown"}
InLoop(p) == pc[p] \in {"sendToUser_send", "sendToUser_prune",
                        "sendToAll_send", "sendToAll_prune"}
AtPrune(p) == pc[p] \in {"sendToUser_prune", "sendToAll_prune"}
ActiveIds == {r.id : r \in {d \in store : d.isActive}}

\* C1: a dispatch over N >= 1 targets of which K attempts fail, the store
\* staying available, returns (never throws) sent = N - K and total = N,
\* and success with sent = total when K = 0.
C1_ReturnsSentNMinusK ==
    \A p \in Procs :
        (IsDispatch(p) /\ Finished(p) /\ hist[p].loaded >= 1 /\ ~hist[p].pruneFailed)
        => /\ pc[p] = "returned"
           /\ result[p].sent = hist[p].loaded - hist[p].failed
           /\ result[p].total = hist[p].loaded
           /\ (hist[p].failed = 0 =>
                 result[p].success /\ result[p].sent = result[p].total)

\* C2: once a dispatch has dealt with a 404/410 outcome for a subscription
\* (the store staying available), that subscription is no active document
\* any more, so no later target set holds it.
C2_GoneIsExcluded ==
    \A p \in Procs :
        (/\ IsDispatch(p)
         /\ hist[p].last = "PermanentFailure"
         /\ ~AtPrune(p)
         /\ ~hist[p].pruneFailed)
        => hist[p].lastId \notin ActiveIds

\* a step taken by the dispatch of request p
DispatchStep(p) ==
    /\ InLoop(p)
    /\ \/ pc'[p] # pc[p]
       \/ idx'[p] # idx[p]
       \/ hist'[p] # hist[p]

\* C3: a step of a dispatch removes nothing from the store but the document
\* of its own running attempt, and that only when this attempt was answered
\* 404 or 410; it never adds or changes a document.
C3_PrunesOnlyOwnGone ==
    [][\A p \in Procs :
         DispatchStep(p) =>
           /\ store' \subseteq store
           /\ \A r \in store \ store' :
                /\ hist[p].last = "PermanentFailure"
                /\ r.id = hist[p].lastId
                /\ r.id = Current(p).id]_vars

\* C3 witness: a dispatch over two targets returned after a transient
\* failure of its last target, which is still active, one target pruned.
C3_Witness ==
    \E p \in Procs :
        /\ IsDispatch(p) /\ pc[p] = "returned"
        /\ hist[p].loaded = 2 /\ hist[p].failed = 2
        /\ hist[p].last = "TransientFailure"
        /\ hist[p].lastId \in ActiveIds
        /\ Cardinality(ActiveIds) = 1

C5_AggregateCounts ==
    \A p \in Procs :
        (IsDispatch(p) /\ pc[p] = "returned" /\ hist[p].loaded >= 1)
        => /\ result[p].total = hist[p].loaded
           /\ result[p].sent = hist[p].delivered
           /\ 0 <= result[p].sent /\ result[p].sent <= result[p].total
           /\ (result[p].success <=> result[p].sent > 0)

\* C5 witness: a dispatch over two targets returned with none delivered.
C5_Witness ==
    \E p \in Procs :
        /\ IsDispatch(p) /\ pc[p] = "returned"
        /\ hist[p].loaded = 2 /\ hist[p].delivered = 0

\* C6: a subscribe that no other subscribe of the same pair overlaps leaves
\* exactly one document for its (userId, endpoint), active and with the keys
\* of this call, whatever was registered for the pair before.
C6_SecondRegistrationWins ==
    \A p \in Procs :
        (args[p].op = "subscribe" /\ pc[p] = "returned" /\ ~hist[p].overlap)
        => /\ {r \in store : /\ r.userId = args[p].userId
                             /\ r.endpoint = args[p].endpoint} = {result[p]}
           /\ result[p].isActive
           /\ result[p].keys = args[p].keys

\* C6 witness: the returned subscribe replaced an active registration of
\* the same pair that had other keys.
C6_Witness ==
    \E p \in Procs :
        /\ args[p].op = "subscribe" /\ pc[p] = "returned" /\ ~hist[p].overlap
        /\ hist[p].replaced # {}
        /\ args[p].keys \notin hist[p].replaced

\* C7: in every reachable state the store holds at most one active document
\* per (userId, endpoint) pair.
C7_OneActivePerPair ==
    \A r \in store : \A q \in store :
        (r.isActive /\ q.isActive /\ r.userId = q.userId /\ r.endpoint = q.endpoint)
        => r.id = q.id

\* C8: a dispatch whose pruning delete failed still returns its aggregate,
\* with sent = the number of delivered attempts.
C8_PruneFailureSwallowed ==
    \A p \in Procs :
        (IsDispatch(p) /\ Finished(p) /\ hist[p].pruneFailed)
        => /\ pc[p] = "returned"
           /\ result[p].sent = hist[p].delivered

\* C9: when a dispatch ends (the store staying available), every target it
\* loaded has had its delivery attempt: no failed delivery cut the batch.
C9_EveryTargetAttempted ==
    \A p \in Procs :
        (IsDispatch(p) /\ Finished(p) /\ hist[p].loaded >= 1 /\ ~hist[p].pruneFailed)
        => hist[p].delivered + hist[p].failed = hist[p].loaded

\* C10: no dispatch holds in its target set, or has attempted, a document
\* whose isActive flag was false when the target set was loaded.
C10_NoInactiveTarget ==
    \A p \in Procs :
        /\ InLoop(p) =>
             \A i \in 1..Len(subscriptions[p]) :
                 /\ subscriptions[p][i].isActive
                 /\ subscriptions[p][i].id \notin hist[p].inactiveAtLoad
        /\ (IsDispatch(p) /\ hist[p].last # "none") =>
             hist[p].lastId \notin hist[p].inactiveAtLoad

\* C10 witness: sendToUser made an attempt for a user who had an inactive
\* document when the target set was loaded.
C10_Witness ==
    \E p \in Procs :
        /\ args[p].op = "sendToUser" /\ args[p].userId = "u1"
        /\ hist[p].inactiveAtLoad # {}
        /\ hist[p].last # "none"

\* C11: unsubscribe of a user who owns a document returns a count > 0, and
\* an unsubscribe of the same user directly after an unsubscribe that
\* returned returns 0; neither throws while the store answers.
C11_SecondUnsubscribeReturnsZero ==
    \A p \in Procs :
        (args[p].op = "unsubscribe" /\ Finished(p) /\ ~hist[p].storeFailed)
        => /\ pc[p] = "returned"
           /\ (hist[p].owned >= 1 => result[p].deletedCount > 0)
           /\ (hist[p].prevCount >= 0 => result[p].deletedCount = 0)

\* an unsubscribe has returned 0 directly after one that returned a count > 0
C11_Witness ==
    \E p \in Procs :
        /\ args[p].op = "unsubscribe"
        /\ pc[p] = "returned"
        /\ hist[p].prevCount >= 1
        /\ result[p].deletedCount = 0

C13_FailuresAnswer200 ==
    \A p \in Procs :
        (IsDispatch(p) /\ Finished(p) /\ hist[p].loaded >= 1 /\ ~hist[p].storeFailed)
        => /\ ResponseStatus(p) = 200
           /\ (hist[p].delivered = 0 => result[p].success = FALSE)

\* C14: when a dispatch returns its aggregate, every target it loaded has
\* an outcome, none is pending, and the counts are those of all outcomes.
C14_ResultAfterAllOutcomes ==
    \A p \in Procs :
        (IsDispatch(p) /\ pc[p] = "returned" /\ hist[p].loaded >= 1)
        => /\ hist[p].delivered + hist[p].failed = hist[p].loaded
           /\ Pending(p) = {}
           /\ result[p].total = hist[p].loaded
           /\ result[p].sent = hist[p].delivered

\* a dispatch over two targets has returned after a failed and a delivered attempt
C14_Witness ==
    \E p \in Procs :
        /\ IsDispatch(p)
        /\ pc[p] = "returned"
        /\ hist[p].loaded = 2
        /\ hist[p].failed = 1
        /\ hist[p].delivered = 1

\* C15: while no attempt of a dispatch over two or more targets has an
\* outcome yet, the attempts of at least two targets are under way.
C15_AttemptsOverlap ==
    \A p \in Procs :
        (InLoop(p) /\ hist[p].loaded >= 2 /\ hist[p].delivered + hist[p].failed = 0)
        => Cardinality(Pending(p)) >= 2

\* C16: a dispatch that entered its loop eventually returns or throws.
C16_DispatchTerminates ==
    \A p \in Procs : InLoop(p) ~> Finished(p)

\* C17: when two dispatches got a 404/410 for the same subscription and the
\* store answered both, neither of them throws.
C17_SharedGoneNeverRaises ==
    \A p \in Procs : \A q \in Procs \ {p} :
        (/\ IsDispatch(p) /\ IsDispatch(q)
         /\ hist[p].last = "PermanentFailure" /\ hist[q].last = "PermanentFailure"
         /\ hist[p].lastId = hist[q].lastId
         /\ ~hist[p].storeFailed /\ ~hist[q].storeFailed)
        => pc[p] # "thrown"

\* C18: a subscribe body with an endpoint that is no URL or with an empty
\* p256dh or auth key never reaches the service or the store; the request
\* of an authenticated caller carrying it is answered 400 with the
\* collection as it was.
C18_InvalidSubscribeRejected ==
    /\ \A p \in Procs :
          args[p].op = "subscribe"
          => args[p].endpoint \in Endpoints /\ args[p].keys \in Keys
    /\ \A r \in store : r.endpoint \in Endpoints /\ r.keys \in Keys
    /\ (/\ prev.op = "rejected"
        /\ prev.route = "subscribe"
        /\ prev.caller \in users
        /\ (prev.endpoint \notin Endpoints \/ prev.keys \notin Keys))
       => prev.status = 400 /\ store = prev.before

\* a subscribe request with an empty key was answered 400 while the
\* collection held a document
C18_Witness ==
    /\ prev.op = "rejected"
    /\ prev.status = 400
    /\ prev.keys \notin Keys
    /\ prev.before # {}
    /\ store = prev.before

\* C19: a dispatch runs for an existing admin caller only; a send request
\* the middleware turns down leaves the collection alone; subscribe,
\* unsubscribe and status answer 401 to callers without a valid token of
\* an existing user only, and never 403.
C19_OnlyAdminDispatches ==
    /\ \A p \in Procs :
          IsDispatch(p) => args[p].caller \in users /\ Role(args[p].caller) = "admin"
    /\ (prev.op = "rejected" /\ prev.route \in SendRoutes)
       => /\ prev.status \in {401, 403}
          /\ prev.caller \notin users \/ Role(prev.caller) # "admin"
          /\ store = prev.before
    /\ (prev.op = "rejected" /\ prev.route \notin SendRoutes /\ prev.status # 400)
       => prev.status = 401 /\ prev.caller \notin users

\* a send request of an existing non-admin user was answered 403
C19_Witness ==
    /\ prev.op = "rejected"
    /\ prev.route \in SendRoutes
    /\ prev.status = 403
    /\ prev.caller \in users

\* C20: in a process started without VAPID keys an idle server accepts the
\* subscribe, unsubscribe and status requests of its users.
C20_RegistrationWithoutKeys ==
    (~vapid /\ \A p \in Procs : pc[p] = "idle")
    => /\ ENABLED SubscribeDeleteMany("r1", "u1", "e1", "k1")
       /\ ENABLED Unsubscribe("r1", "u1")
       /\ ENABLED IsUserSubscribed("r1", "u1")

\* request p takes a step
Stepped(p) == pc'[p] # pc[p] \/ idx'[p] # idx[p] \/ args'[p] # args[p]

\* C21: no step changes the owner, endpoint or keys of a document that
\* stays in the collection, and a document that appears carries an id the
\* collection never assigned before.
C21_EndpointAndKeysImmutable ==
    [][/\ \A r \in store : \A n \in store' : n.id = r.id => n = r
       /\ \A n \in store' :
            (\A r \in store : r.id # n.id) => n.id >= nextId /\ nextId' > n.id]_vars

\* a pair was registered again with other keys: the keys are in a document
\* with a new id
C21_Witness ==
    \E p \in Procs :
        /\ args[p].op = "subscribe"
        /\ pc[p] = "returned"
        /\ hist[p].replaced # {}
        /\ result[p].keys \notin hist[p].replaced
        /\ result[p].id > 1

\* C22: a status check the store answered returns true exactly when the
\* collection holds an active document of the caller; when subscribe has
\* returned there is one, when unsubscribe has returned there is none.
C22_StatusIffActive ==
    \A p \in Procs :
        LET active == \E r \in store : r.userId = args[p].userId /\ r.isActive
        IN /\ (args[p].op = "isUserSubscribed" /\ Finished(p) /\ ~hist[p].storeFailed)
              => pc[p] = "returned" /\ (result[p].isSubscribed <=> active)
           /\ (args[p].op = "subscribe" /\ pc[p] = "returned") => active
           /\ (args[p].op = "unsubscribe" /\ pc[p] = "returned") => ~active

\* a status check answered false for a caller who owns an inactive document
C22_Witness ==
    \E p \in Procs :
        /\ args[p].op = "isUserSubscribed"
        /\ pc[p] = "returned"
        /\ ~hist[p].storeFailed
        /\ result[p].isSubscribed = FALSE
        /\ \E r \in store : r.userId = args[p].userId

\* C23: a subscribe, unsubscribe or dispatch whose store operation failed
\* ends with an error, answered 500, and hands back no value.
C23_StoreFailureIs500 ==
    \A p \in Procs :
        (/\ Finished(p)
         /\ hist[p].storeFailed
         /\ args[p].op \in {"subscribe", "unsubscribe", "sendToUser", "sendToAllUsers"})
        => /\ pc[p] = "thrown"
           /\ ResponseStatus(p) = 500
           /\ DOMAIN result[p] = {"error"}

\* a dispatch failed while it loaded its target set
C23_Witness ==
    \E p \in Procs :
        /\ IsDispatch(p)
        /\ pc[p] = "thrown"
        /\ hist[p].storeFailed
        /\ hist[p].loaded = -1

\* C24: a dispatch that returns while another dispatch is in its loop
\* reports its own delivered attempts and its own target count.
C24_CountsArePerCall ==
    \A p \in Procs : \A q \in Procs \ {p} :
        (/\ IsDispatch(p) /\ pc[p] = "returned" /\ hist[p].loaded >= 1
         /\ IsDispatch(q) /\ InLoop(q))
        => /\ result[p].sent = hist[p].delivered
           /\ result[p].total = hist[p].loaded

\* a dispatch returned with a delivery while the other dispatch, which
\* also delivered one, is still in its loop
C24_Witness ==
    \E p \in Procs : \E q \in Procs \ {p} :
        /\ IsDispatch(p) /\ pc[p] = "returned" /\ hist[p].delivered >= 1
        /\ IsDispatch(q) /\ InLoop(q) /\ successCount[q] >= 1

\* C25: when subscribe has thrown after its delete step removed an active
\* document of the pair, an active document of the pair is in the store.
C25_FailedSubscribeKeepsOld ==
    \A p \in Procs :
        (args[p].op = "subscribe" /\ pc[p] = "thrown" /\ hist[p].replaced # {})
        => \E r \in store : /\ r.userId = args[p].userId
                             /\ r.endpoint = args[p].endpoint
                             /\ r.isActive

\* C26: the pruning step of a dispatch leaves every document in the store
\* that has the endpoint of the failed target under another id.
C26_PruneKeepsNewRecord ==
    [][\A p \in Procs :
         (AtPrune(p) /\ Stepped(p))
         => \A d \in store :
              (d.endpoint = Current(p).endpoint /\ d.id # Current(p).id)
              => d \in store']_vars

\* a dispatch that got 404/410 for a document has returned after its
\* pruning; the document is gone and an active document registered later
\* for the same subscriber and endpoint is in the store (u2 registers e1 only)
C26_Witness ==
    \E p \in Procs :
        /\ args[p].op = "sendToUser"
        /\ args[p].userId = "u2"
        /\ pc[p] = "returned"
        /\ hist[p].last = "PermanentFailure"
        /\ hist[p].lastId \notin {r.id : r \in store}
        /\ hist[p].loaded = 1
        /\ \E d \in store : /\ d.userId = args[p].userId
                             /\ d.endpoint = "e1"
                             /\ d.id > hist[p].lastId
                             /\ d.isActive

\* C27: directly after an unsubscribe that removed documents has returned,
\* no dispatch starts an attempt for a target of that subscriber.
C27_NoAttemptAfterUnsubscribe ==
    [][\A p \in Procs :
         (/\ prev.op = "unsubscribe"
          /\ prev.count >= 1
          /\ Pending(p)' # {}
          /\ Pending(p)' # Pending(p))
         => subscriptions'[p][idx'[p] + 1].userId # prev.userId]_vars

\* C28: a step of subscribe, unsubscribe or sendToUser for one user leaves
\* the documents of every other user as they were.
C28_OtherSubscribersUntouched ==
    [][\A p \in Procs :
         (Stepped(p) /\ args'[p].op \in {"subscribe", "unsubscribe", "sendToUser"})
         => {r \in store : r.userId # args'[p].userId}
              = {r \in store' : r.userId # args'[p].userId}]_vars

\* a subscribe of one user has returned while another user holds a
\* document with the same endpoint
C28_Witness ==
    \E p \in Procs :
        /\ args[p].op = "subscribe"
        /\ pc[p] = "returned"
        /\ \E r \in store : /\ r.userId # args[p].userId
                             /\ r.endpoint = args[p].endpoint

\* C29: a status check returns, is answered 200 and leaves the store
\* alone; when the store failed it returns false.
C29_StatusNeverFails ==
    [][\A p \in Procs :
         (pc[p] = "idle" /\ args'[p].op = "isUserSubscribed")
         => /\ store' = store
            /\ pc'[p] = "returned"
            /\ ResponseStatus(p)' = 200
            /\ (hist'[p].storeFailed => result'[p].isSubscribed = FALSE)]_vars

\* a status check whose count failed answered false to a caller with an
\* active document
C29_Witness ==
    \E p \in Procs :
        /\ args[p].op = "isUserSubscribed"
        /\ pc[p] = "returned"
        /\ hist[p].storeFailed
        /\ result[p].isSubscribed = FALSE
        /\ \E r \in store : r.userId = args[p].userId /\ r.isActive

====
